---- MODULE Spec2Model ----
(***************************************************************************)
(* Model of rust-components/src/search_engine/mod.rs: one call of          *)
(* SearchEngine::search_pattern (content search) or                        *)
(* SearchEngine::search_files (file-name search) over a directory tree,    *)
(* run by the parallel walker of the `ignore` crate with the per-file scan *)
(* of the `grep` crate.                                                    *)
(*                                                                         *)
(* A byte is a one-character string, a text a tuple of bytes, a file       *)
(* content the sequence of buffer fills the searcher's line buffer makes,  *)
(* each fill a sequence of lines (terminator included).  An Option<T> is   *)
(* the empty tuple (None) or a one-element tuple (Some).                   *)
(***************************************************************************)
EXTENDS Integers, Sequences, FiniteSets, Bags, TLC

\* Number of walker threads: num_cpus::get() of the machine.
NumWorkers == 2

Workers == 1..NumWorkers

NoneOpt == <<>>
Some(x) == <<x>>
IsSome(o) == o # <<>>
UnwrapOr(o, d) == IF o = <<>> THEN d ELSE o[1]

(***************************************************************************)
(* The file system the call runs on.                                       *)
(***************************************************************************)
NUL == "\\0"
LF == "\n"

Dirs == {"/r", "/r/.h", "/r/d"}
Files == {"/r/a.txt", "/r/b_skip.txt", "/r/.h/x.txt", "/r/d/e.rs"}
\* /r/d/up is a symbolic link to its ancestor /r
Links == {"/r/d/up"}
Nodes == Dirs \cup Files \cup Links

\* a second, non-canonical spelling of the path of /r/a.txt
Alias == "/r/d/../a.txt"

\* Path::canonicalize on a path that exists: the one canonical spelling
Canonicalize(path) == IF path = Alias THEN "/r/a.txt" ELSE path

Children(n) ==
    CASE n = "/r"    -> {"/r/a.txt", "/r/b_skip.txt", "/r/.h", "/r/d"}
      [] n = "/r/.h" -> {"/r/.h/x.txt"}
      [] n = "/r/d"  -> {"/r/d/e.rs", "/r/d/up"}
      [] OTHER       -> {}

\* final path component of a node, as bytes
FileName(n) ==
    CASE n = "/r"           -> <<"r">>
      [] n \in {"/r/a.txt", Alias} -> <<"a", ".", "t", "x", "t">>
      [] n = "/r/b_skip.txt" -> <<"b", "_", "s", "k", "i", "p", ".", "t", "x", "t">>
      [] n = "/r/.h"        -> <<".", "h">>
      [] n = "/r/.h/x.txt"  -> <<"x", ".", "t", "x", "t">>
      [] n = "/r/d"         -> <<"d">>
      [] n = "/r/d/e.rs"    -> <<"e", ".", "r", "s">>
      [] n = "/r/d/up"      -> <<"u", "p">>
      [] OTHER              -> <<>>

\* lines, terminator included except on an unterminated last line
Lfoo    == <<"f", "o", "o">>
LfooN   == <<"f", "o", "o", LF>>
LFOON   == <<"F", "O", "O", LF>>
Lbar    == <<"b", "a", "r">>
LbarN   == <<"b", "a", "r", LF>>
LxxfooN == <<"x", "x", "f", "o", "o", LF>>
LnulN   == <<"a", NUL, "b", LF>>

\* file contents: a sequence of buffer fills, each a sequence of lines
CFooBar     == << <<LfooN, Lbar>> >>
CBarFoo     == << <<LbarN, Lfoo>> >>
CNoMatch    == << <<LbarN>> >>
CEmpty      == << >>
CTwo        == << <<LfooN, LxxfooN>> >>
CUpper      == << <<LFOON, Lfoo>> >>
CNulFirst   == << <<LfooN, LnulN>> >>
CFooThenNul == << <<LfooN, LbarN>>, <<LnulN, LfooN>> >>

(***************************************************************************)
(* Regular expressions: the patterns used are literals, so a match is an   *)
(* occurrence of the pattern's bytes; a pattern with an unclosed group     *)
(* does not compile.                                                       *)
(***************************************************************************)
PFoo == <<"f", "o", "o">>
PTxt == <<"t", "x", "t">>
PBad == <<"(">>
PDir == <<"d">>

\* mutant of Compiles: the compile error is dropped instead of returned
CompilesIgnoringError(p) == TRUE

\* RegexMatcher::new_line_matcher / regex::Regex::new succeed
Compiles(p) == \A i \in 1..Len(p) : p[i] # "("

\* the pattern occurs in s at position i
OccursAt(p, s, i) == i + Len(p) - 1 <= Len(s) /\ SubSeq(s, i, i + Len(p) - 1) = p

IsMatch(p, s) == \E i \in 1..Len(s) : OccursAt(p, s, i)

\* ASCII case folding of a byte string
Fold(s) == [i \in 1..Len(s) |-> IF s[i] = "F" THEN "f" ELSE IF s[i] = "O" THEN "o" ELSE s[i]]

\* mutant of LineMatcher: case_sensitive = false builds a case-insensitive matcher
LineMatcherHonouringCase(p, o) ==
    [pat |-> p, fold |-> IsSome(o.case_sensitive) /\ ~o.case_sensitive[1]]

\* RegexMatcher::new_line_matcher(&pattern): built from the pattern alone,
\* with the builder's defaults (case-sensitive)
LineMatcher(p, o) == [pat |-> p, fold |-> FALSE]

\* Matcher::is_match on a line
MatcherIsMatch(m, line) ==
    IF m.fold THEN IsMatch(Fold(m.pat), Fold(line)) ELSE IsMatch(m.pat, line)

(***************************************************************************)
(* search_in_file: the searcher reads the file fill by fill; a fill in     *)
(* which the NUL byte is seen ends the search as if at end of file         *)
(* (BinaryDetection::quit), what the sink has already been given stays.    *)
(***************************************************************************)
ChunkBytes(chunk) == LET RECURSIVE Sum(_)
                         Sum(i) == IF i > Len(chunk) THEN 0 ELSE Len(chunk[i]) + Sum(i + 1)
                     IN Sum(1)

HasNul(chunk) == \E i \in 1..Len(chunk) : \E j \in 1..Len(chunk[i]) : chunk[i][j] = NUL

\* String::from_utf8_lossy(mat.bytes()): a byte that is not valid UTF-8 is replaced
BadByte == "\\xFF"
Replacement == "U+FFFD"
Lossy(bytes) == [i \in 1..Len(bytes) |-> IF bytes[i] = BadByte THEN Replacement ELSE bytes[i]]

\* mutant of MkMatch: the line number counts from 0
MkMatchZeroBased(line, ln, off) ==
    [line_number |-> ln - 1, column_start |-> off, column_end |-> off + Len(line),
     text |-> Lossy(line)]

\* MatchSink::matched for the line at 1-based number ln starting at byte offset off
MkMatch(line, ln, off) ==
    [line_number |-> ln, column_start |-> off, column_end |-> off + Len(line), text |-> Lossy(line)]

\* mutant of SinkOrder: a later match is put in front of the earlier ones
SinkOrderReversed(earlier, later) == later \o earlier

\* self.matches.push(..): the sink keeps the matches in the order of the
\* calls of matched, which the searcher makes in line order
SinkOrder(earlier, later) == earlier \o later

\* the matches of one fill whose first line has number ln and offset off
RECURSIVE ChunkMatches(_, _, _, _, _)
ChunkMatches(p, chunk, i, ln, off) ==
    IF i > Len(chunk) THEN <<>>
    ELSE SinkOrder(IF MatcherIsMatch(p, chunk[i]) THEN <<MkMatch(chunk[i], ln, off)>> ELSE <<>>,
                   ChunkMatches(p, chunk, i + 1, ln + 1, off + Len(chunk[i])))

RECURSIVE ScanFrom(_, _, _, _, _)
ScanFrom(p, chunks, k, ln, off) ==
    IF k > Len(chunks) THEN <<>>
    ELSE IF HasNul(chunks[k]) THEN <<>>
    ELSE SinkOrder(ChunkMatches(p, chunks[k], 1, ln, off),
                   ScanFrom(p, chunks, k + 1, ln + Len(chunks[k]), off + ChunkBytes(chunks[k])))

\* Result<Vec<Match>>: File::open fails on an unreadable file
search_in_file(content, readable, p) ==
    IF ~readable THEN [ok |-> FALSE, matches |-> <<>>]
    ELSE [ok |-> TRUE, matches |-> ScanFrom(p, content, 1, 1, 0)]

(***************************************************************************)
(* The walker configuration built from the request.                        *)
(***************************************************************************)
\* SearchOptions::default(): every field None
DefaultOptions ==
    [case_sensitive |-> NoneOpt, include_hidden |-> NoneOpt, max_depth |-> NoneOpt,
     include_patterns |-> NoneOpt, exclude_patterns |-> NoneOpt]

\* a conversion that takes a negative depth to 0 instead of wrapping it
AsUsizeSaturating(d) ==
    IF d >= 0 THEN <<0, 0, d \div 65536, d % 65536>> ELSE <<0, 0, 0, 0>>

\* `d as usize` of an i32 on a 64-bit target, as four 16-bit limbs, most
\* significant first: sign extension, then reinterpretation as unsigned
AsUsize(d) ==
    IF d >= 0 THEN <<0, 0, d \div 65536, d % 65536>>
    ELSE LET low == (d + 2147483647) + 1   \* d + 2^31, the low 31 bits
         IN <<65535, 65535, 32768 + (low \div 65536), low % 65536>>

\* depth >= max for a directory depth (small) and a usize limit
DepthAtLeast(depth, max) ==
    max[1] = 0 /\ max[2] = 0 /\ max[3] = 0 /\ depth >= max[4]

\* builder.add(&format!("!{}", glob))
ExcludeEntry(glob) == "!" \o glob

\* the paths handed to the walker: WalkBuilder::new(root), then builder.add
\* of every include entry and of every "!"-prefixed exclude entry
WalkPaths(root, o) ==
    LET inc == UnwrapOr(o.include_patterns, <<>>)
        exc == UnwrapOr(o.exclude_patterns, <<>>)
    IN <<root>> \o inc \o [i \in 1..Len(exc) |-> ExcludeEntry(exc[i])]

\* .hidden(!opts.include_hidden.unwrap_or(false)): TRUE when hidden entries are skipped
SkipHidden(o) == ~UnwrapOr(o.include_hidden, FALSE)

\* .max_depth(opts.max_depth.map(|d| d as usize))
MaxDepth(o) == IF IsSome(o.max_depth) THEN Some(AsUsize(o.max_depth[1])) ELSE NoneOpt

IsHidden(n) == Len(FileName(n)) > 0 /\ FileName(n)[1] = "."

\* DirEntryRaw::from_path succeeds exactly on a path that exists
Exists(path) == path \in Nodes \cup {Alias}

\* the file type of an entry, not following a symbolic link
NodeKind(n) ==
    IF n \in Dirs THEN "dir" ELSE IF n \in Files \cup {Alias} THEN "file" ELSE "symlink"

(***************************************************************************)
(* State of one call.                                                      *)
(***************************************************************************)
VARIABLES
    content,     \* file -> its content (the tree does not change during the call)
    unreadable,  \* files on which File::open fails
    faults,      \* other per-entry failures: files that canonicalize or the read
                 \* fails on, directories that cannot be listed
    req,         \* the request: mode, root_path, pattern, options
    cpc,         \* position of the caller
    ret,         \* what the call returned
    arcStrong,   \* strong count of the Arc<Mutex<Vec>> of the call
    queue,       \* the walker's shared stack of pending work, a bag of [node, depth]
    wpc,         \* position of each walker thread
    wcur,        \* the entry a walker thread is handling
    wres,        \* the per-file result a walker thread is about to push
    lockHolder,  \* the thread holding the Mutex, or 0
    results,     \* the Vec behind the Mutex
    visited,     \* bag of the entries handed to the callback as Ok(entry)
    opened       \* files search_in_file has opened

\* the state of RustFileOperations: the file system it works on and the
\* tasks that call it
VARIABLES
    disk,        \* path -> the bytes of the file, or Absent
    written,     \* path -> the data of the last write_file that succeeded on it
    ftask,       \* per task: the write_file it is in, and whether that call has
                 \* run alone on its path so far
    returned     \* the call that returned in the step just taken, with what it
                 \* returned; NoReturn after a step in which no call returned

searchVars == <<content, unreadable, faults, req, cpc, ret, arcStrong, queue, wpc, wcur, wres,
                lockHolder, results, visited, opened>>

fileVars == <<disk, written, ftask, returned>>

\* the state of the ContextStore behind AIOrchestrator's RwLock
VARIABLES
    cache,       \* ContextStore.cache: key -> Context, or NoContext
    cacheOrder,  \* the keys present, in the order of their insertion
    cacheRet     \* the call that returned in the step just taken

ctxVars == <<cache, cacheOrder, cacheRet>>

\* the state of the PerformanceMonitor of performance_monitor.rs and of the
\* OperationHandles it gave out
VARIABLES
    operation_stats,    \* OperationType -> OperationStats, or NoStats
    active_operations,  \* the AtomicU32 counter
    handles,            \* the OperationHandles: where each one is in its life
    guard,              \* OperationType -> the handle whose complete() holds
                        \* the entry of the type in the DashMap, or 0
    memory_samples,     \* the length of the vector of memory samples
    completed,          \* OperationType -> the bag of the durations of the
                        \* handles completed since the statistics were cleared
    started,            \* number of start_operation calls since then
    monRet              \* the call that returned in the step just taken

monVars == <<operation_stats, active_operations, handles, guard, memory_samples,
             completed, started, monRet>>

\* the state of the global OPERATIONS map of performance_monitor/mod.rs
VARIABLES
    OPERATIONS,  \* the HashMap: id -> name of the operation, or NoOperation
    issued,      \* the ids start_operation has returned
    ended,       \* number of end_operation calls that succeeded
    opRet        \* the call that returned in the step just taken

opVars == <<OPERATIONS, issued, ended, opRet>>

vars == <<searchVars, fileVars, ctxVars, monVars, opVars>>

\* what each component leaves alone
exceptSearch == <<fileVars, ctxVars, monVars, opVars>>
exceptFile == <<searchVars, ctxVars, monVars, opVars>>
exceptCtx == <<searchVars, fileVars, monVars, opVars>>
exceptMon == <<searchVars, fileVars, ctxVars, opVars>>
exceptOp == <<searchVars, fileVars, ctxVars, monVars>>

NoWork == [node |-> "", depth |-> 0]
NoResult == [file_path |-> "", matches |-> <<>>]
Pending == [kind |-> "Pending", reason |-> "", value |-> <<>>]
Err(reason) == [kind |-> "Err", reason |-> reason, value |-> <<>>]
Ok(value) == [kind |-> "Ok", reason |-> "", value |-> value]

\* tasks calling RustFileOperations concurrently (tokio tasks)
NumTasks == 2
Tasks == 1..NumTasks

\* the paths of the file operations: two files of the directory /t, and a
\* file of a directory that does not exist
FDir == "/t"
FMissingDir == "/nodir"
FPaths == {"/t/a", "/t/b", "/nodir/x"}
FParent(p) == IF p = "/nodir/x" THEN FMissingDir ELSE FDir
FName(p) == IF p = "/t/a" THEN "a" ELSE IF p = "/t/b" THEN "b" ELSE "x"

\* the buffers written: the empty one and one of two bytes
Buffers == {<<>>, <<"2", "3">>}

Absent == <<"absent">>
NoDisk == [p \in FPaths |-> Absent]
NoCall == [pc |-> "idle", path |-> "", data |-> <<>>, alone |-> TRUE]
NoReturn == [op |-> "", path |-> "", ret |-> Pending]

\* no call of RustFileOperations was made
FileIdle ==
    /\ disk = NoDisk /\ written = NoDisk
    /\ ftask = [t \in Tasks |-> NoCall] /\ returned = NoReturn

\* the keys and the contexts of the cache_context calls
CKeys == {"k1", "k2", "k3", "k4"}
Contexts == {"c1", "c2"}
NoContext == "none"

\* no call of the orchestrator has returned in the step just taken
NoCacheReturn == [op |-> "", key |-> "", context |-> NoContext, ret |-> Pending]

\* ContextStore::new, no call made
CtxIdle ==
    /\ cache = [k \in CKeys |-> NoContext]
    /\ cacheOrder = <<>>
    /\ cacheRet = NoCacheReturn

\* the operation types used, and the DashMap holding no entry for a type (it
\* holds Some(entry) otherwise)
OpTypes == {"ReadFile", "WriteFile"}
NoEntry == <<>>

\* the OperationHandles a run creates
MaxHandles == 2
HandleIds == 1..MaxHandles

\* a handle start_operation has not created yet
NoHandle == [pc |-> "none", operation_type |-> "", bytes |-> 0, duration_us |-> 0]

\* no call of the monitor has returned in the step just taken
NoMonReturn == [op |-> "", operation_type |-> "", ret |-> Pending]

\* PerformanceMonitor::new, no call made
MonIdle ==
    /\ operation_stats = [ty \in OpTypes |-> NoEntry]
    /\ active_operations = 0
    /\ handles = [h \in HandleIds |-> NoHandle]
    /\ guard = [ty \in OpTypes |-> 0]
    /\ memory_samples = 0
    /\ completed = [ty \in OpTypes |-> EmptyBag]
    /\ started = 0
    /\ monRet = NoMonReturn

\* the ids Uuid::new_v4 produces in a run, an id it never produces, and the
\* names of the operations
MaxOps == 3
OpIds == 1..MaxOps
UnknownId == 0
OpNames == {"read", "write"}
NoOperation == "none"

\* no call of the id-based monitor has returned in the step just taken
NoOpReturn == [op |-> "", id |-> UnknownId, ret |-> Pending]

\* OPERATIONS as lazy_static creates it, no call made
OpIdle ==
    /\ OPERATIONS = [i \in OpIds |-> NoOperation]
    /\ issued = {}
    /\ ended = 0
    /\ opRet = NoOpReturn

\* options.unwrap_or_default()
Opts == UnwrapOr(req.options, DefaultOptions)

(***************************************************************************)
(* Inputs.                                                                 *)
(***************************************************************************)
BaseContent ==
    [f \in Files |-> IF f \in {"/r/a.txt", "/r/d/e.rs"} THEN CFooBar ELSE CBarFoo]

ContentChoices ==
    {[BaseContent EXCEPT !["/r/a.txt"] = a, !["/r/b_skip.txt"] = b] :
        a \in {CFooBar, CNoMatch, CEmpty, CTwo, CNulFirst, CFooThenNul},
        b \in {CBarFoo, CFooThenNul}}

UnreadableChoices == {{}, {"/r/d/e.rs"}}

NoFaults == [canon |-> {}, read |-> {}, dirs |-> {}]

FaultChoices ==
    {[NoFaults EXCEPT !.canon = {"/r/a.txt"}], [NoFaults EXCEPT !.read = {"/r/a.txt"}],
     [NoFaults EXCEPT !.dirs = {"/r/d"}]}

\* every combination of include_hidden, include_patterns and exclude_patterns,
\* every combination of include_hidden and max_depth, every case_sensitive
OptionChoices ==
    {[DefaultOptions EXCEPT !.include_hidden = h, !.include_patterns = i,
                            !.exclude_patterns = e] :
        h \in {NoneOpt, Some(TRUE), Some(FALSE)},
        i \in {NoneOpt, Some(<<"*.txt">>), Some(<<"/r/a.txt">>), Some(<<"/r/.h">>)},
        e \in {NoneOpt, Some(<<"*_skip.txt">>)}}
    \cup {[DefaultOptions EXCEPT !.include_hidden = h, !.max_depth = d] :
        h \in {NoneOpt, Some(TRUE), Some(FALSE)},
        d \in {NoneOpt, Some(0), Some(1), Some(-1)}}
    \cup {[DefaultOptions EXCEPT !.case_sensitive = Some(c)] : c \in BOOLEAN}

DefaultRequest ==
    [mode |-> "content", root_path |-> "/r", pattern |-> PFoo, options |-> NoneOpt]

\* every tree with the default request, every option set on the base tree,
\* every mode, root and pattern with the options omitted, every per-entry
\* failure in both modes
RequestChoices ==
    {<<c, u, DefaultRequest, NoFaults>> : c \in ContentChoices, u \in UnreadableChoices}
    \cup {<<BaseContent, {}, [DefaultRequest EXCEPT !.options = Some(o)], NoFaults>> :
            o \in OptionChoices}
    \cup {<<BaseContent, {}, [DefaultRequest EXCEPT !.mode = m, !.root_path = r, !.pattern = p],
            NoFaults>> :
            m \in {"content", "files"}, r \in {"/r", "/r/a.txt", "/missing"},
            p \in {PFoo, PTxt, PBad}}
    \cup {<<BaseContent, {}, DefaultRequest, f>> : f \in FaultChoices}
    \cup {<<[BaseContent EXCEPT !["/r/a.txt"] = CUpper], {},
            [DefaultRequest EXCEPT !.options = Some([DefaultOptions EXCEPT !.case_sensitive = c])],
            NoFaults>> : c \in {NoneOpt, Some(TRUE), Some(FALSE)}}
    \cup {<<BaseContent, {}, [DefaultRequest EXCEPT !.mode = "files", !.pattern = PTxt], f>> :
            f \in FaultChoices}
    \cup {<<BaseContent, {}, [DefaultRequest EXCEPT !.mode = "files", !.pattern = PDir],
            NoFaults>>}
    \cup {<<BaseContent, {}, [DefaultRequest EXCEPT !.mode = "files", !.root_path = Alias,
                                                    !.pattern = PTxt], NoFaults>>}

Init ==
    /\ \E c \in RequestChoices :
          /\ content = c[1]
          /\ unreadable = c[2]
          /\ req = c[3]
          /\ faults = c[4]
    /\ cpc = "start"
    /\ ret = Pending
    /\ arcStrong = 0
    /\ queue = EmptyBag
    /\ wpc = [w \in Workers |-> "unborn"]
    /\ wcur = [w \in Workers |-> NoWork]
    /\ wres = [w \in Workers |-> NoResult]
    /\ lockHolder = 0
    /\ results = <<>>
    /\ visited = EmptyBag
    /\ opened = {}
    /\ FileIdle /\ CtxIdle /\ MonIdle /\ OpIdle

(***************************************************************************)
(* The walker as the two entry points configure it.                        *)
(***************************************************************************)
\* search_pattern: root, include and exclude entries; search_files: the root
CfgPaths == IF req.mode = "content" THEN WalkPaths(req.root_path, Opts) ELSE <<req.root_path>>

\* search_pattern: .hidden(!include_hidden); search_files: .hidden(false)
CfgSkipHidden == IF req.mode = "content" THEN SkipHidden(Opts) ELSE FALSE

\* search_pattern: .max_depth(..); search_files: the default, no limit
CfgMaxDepth == IF req.mode = "content" THEN MaxDepth(Opts) ELSE NoneOpt

\* the message of the error a pattern that does not compile yields
InvalidPatternReason ==
    IF req.mode = "content" THEN "Invalid regex pattern" ELSE "Invalid file pattern"

UnwrapFailedReason ==
    IF req.mode = "content" THEN "Failed to unwrap results" ELSE "Failed to unwrap files"

\* the work the walker creates for the paths it was given: one entry of
\* depth 0 per path that exists (a path that does not is handed to the
\* callback as Err, which the callback drops)
RootWork(paths) ==
    LET RECURSIVE Build(_)
        Build(i) == IF i > Len(paths) THEN EmptyBag
                    ELSE (IF Exists(paths[i])
                          THEN SetToBag({[node |-> paths[i], depth |-> 0]})
                          ELSE EmptyBag) (+) Build(i + 1)
    IN Build(1)

\* should_skip_entry: the children of a directory the walker leaves out
SkipEntry(n) == CfgSkipHidden /\ IsHidden(n)

\* the work a directory at the given depth generates
ChildWork(dir, depth) ==
    IF IsSome(CfgMaxDepth) /\ DepthAtLeast(depth, CfgMaxDepth[1]) THEN EmptyBag
    ELSE SetToBag({[node |-> c, depth |-> depth + 1] : c \in {c \in Children(dir) : ~SkipEntry(c)}})

\* mutant of ShouldPush: the is_empty test is missing
ShouldPushAnyOk(r) == r.ok

\* if let Ok(matches) = search_in_file(..) { if !matches.is_empty() { push } }
ShouldPush(r) == r.ok /\ r.matches # <<>>

(***************************************************************************)
(* The caller.                                                             *)
(***************************************************************************)
\* the pattern is compiled; on success the shared result vector is created
\* (results and results_clone: two strong references)
Compile ==
    /\ cpc = "start"
    /\ IF Compiles(req.pattern)
       THEN /\ cpc' = "built"
            /\ arcStrong' = 2
            /\ ret' = ret
       ELSE /\ cpc' = "done"
            /\ arcStrong' = arcStrong
            /\ ret' = Err(InvalidPatternReason)
    /\ UNCHANGED <<exceptSearch, content, unreadable, faults, req, queue, wpc, wcur, wres, lockHolder,
                   results, visited, opened>>

\* build_parallel().run: the given paths become the initial work; with no
\* work the walk returns at once, otherwise one thread per CPU is started,
\* each with its own callback holding a clone of the Arc
StartWalk ==
    /\ cpc = "built"
    /\ LET work == RootWork(CfgPaths)
       IN IF BagToSet(work) = {}
          THEN /\ cpc' = "joined"
               /\ UNCHANGED <<queue, wpc, arcStrong>>
          ELSE /\ cpc' = "walking"
               /\ queue' = work
               /\ wpc' = [w \in Workers |-> "idle"]
               /\ arcStrong' = arcStrong + NumWorkers
    /\ UNCHANGED <<exceptSearch, content, unreadable, faults, req, ret, wcur, wres, lockHolder, results,
                   visited, opened>>

\* mutant of RunReturns: run returns as soon as no work is pending
RunReturnsOnEmptyQueue(pcs, work) == BagToSet(work) = {}

\* build_parallel().run(..) joins its threads before it returns
RunReturns(pcs, work) == \A w \in Workers : pcs[w] = "exited"

\* run returns when every thread has been joined
Join ==
    /\ cpc = "walking"
    /\ RunReturns(wpc, queue)
    /\ cpc' = "joined"
    /\ UNCHANGED <<exceptSearch, content, unreadable, faults, req, ret, arcStrong, queue, wpc, wcur, wres,
                   lockHolder, results, visited, opened>>

\* Arc::try_unwrap(results) succeeds only for the last strong reference;
\* results_clone is still alive here.  On return every local is dropped.
Finalize ==
    /\ cpc = "joined"
    /\ cpc' = "done"
    /\ ret' = IF arcStrong = 1 THEN Ok(results) ELSE Err(UnwrapFailedReason)
    /\ arcStrong' = 0
    /\ UNCHANGED <<exceptSearch, content, unreadable, faults, req, queue, wpc, wcur, wres, lockHolder,
                   results, visited, opened>>

(***************************************************************************)
(* The walker threads.                                                     *)
(***************************************************************************)
\* a thread without work takes any pending entry (own stack or stolen)
Take(w) ==
    /\ cpc = "walking"
    /\ wpc[w] = "idle"
    /\ \E item \in BagToSet(queue) :
          /\ queue' = queue (-) SetToBag({item})
          /\ wcur' = [wcur EXCEPT ![w] = item]
    /\ wpc' = [wpc EXCEPT ![w] = "visit"]
    /\ UNCHANGED <<exceptSearch, content, unreadable, faults, req, cpc, ret, arcStrong, wres, lockHolder,
                   results, visited, opened>>

\* mutant of CallbackState: a failed scan stops the walk
CallbackQuitOnError(ok) == IF ok THEN "Continue" ELSE "Quit"

\* what the callback returns to the walker after an entry whose handling
\* succeeded or not: ignore::WalkState::Continue in every case
CallbackState(ok) == "Continue"

\* mutant of AfterCallback: the pending work is discarded after every callback
AfterCallbackDropping(state, work) == EmptyBag

\* the pending work after a callback returned: Quit discards it
AfterCallback(state, work) == IF state = "Quit" THEN EmptyBag ELSE work

\* the callback of search_pattern on a regular file: canonicalize, then
\* search_in_file; a non-empty match list is kept for the push
VisitContentFile(w) ==
    /\ wpc[w] = "visit"
    /\ req.mode = "content"
    /\ NodeKind(wcur[w].node) = "file"
    /\ LET n == Canonicalize(wcur[w].node)
           canonOk == n \notin faults.canon
           r == IF canonOk
                THEN search_in_file(content[n], n \notin unreadable \cup faults.read,
                                    LineMatcher(req.pattern, Opts))
                ELSE [ok |-> FALSE, matches |-> <<>>]
       IN /\ visited' = visited (+) SetToBag({n})
          /\ opened' = IF canonOk /\ n \notin unreadable THEN opened \cup {n} ELSE opened
          /\ queue' = AfterCallback(CallbackState(r.ok), queue)
          /\ IF ShouldPush(r)
             THEN /\ wres' = [wres EXCEPT ![w] = [file_path |-> n, matches |-> r.matches]]
                  /\ wpc' = [wpc EXCEPT ![w] = "lock"]
                  /\ wcur' = wcur
             ELSE /\ wres' = wres
                  /\ wpc' = [wpc EXCEPT ![w] = "idle"]
                  /\ wcur' = [wcur EXCEPT ![w] = NoWork]
    /\ UNCHANGED <<exceptSearch, content, unreadable, faults, req, cpc, ret, arcStrong, lockHolder, results>>

\* the whole path of a node, byte by byte
PathChars(n) ==
    CASE n = "/r/a.txt"      -> <<"/", "r", "/", "a", ".", "t", "x", "t">>
      [] n = "/r/b_skip.txt" -> <<"/", "r", "/", "b", "_", "s", "k", "i", "p", ".", "t", "x", "t">>
      [] n = "/r/.h/x.txt"   -> <<"/", "r", "/", ".", "h", "/", "x", ".", "t", "x", "t">>
      [] n = "/r/d/e.rs"     -> <<"/", "r", "/", "d", "/", "e", ".", "r", "s">>
      [] n = Alias           -> <<"/", "r", "/", "d", "/", ".", ".", "/", "a", ".", "t", "x", "t">>
      [] OTHER               -> <<"/">> \o FileName(n)

\* mutant of MatchSubject: the pattern is tested on the whole path
MatchSubjectWholePath(n) == PathChars(n)

\* path.file_name().and_then(|n| n.to_str()): what the file pattern is tested on
MatchSubject(n) == FileName(n)

\* the callback of search_files on a regular file: the pattern is tested on
\* the file name, a match is canonicalized and kept for the push
VisitNameFile(w) ==
    /\ wpc[w] = "visit"
    /\ req.mode = "files"
    /\ NodeKind(wcur[w].node) = "file"
    /\ LET n == Canonicalize(wcur[w].node)
           selected == IsMatch(req.pattern, MatchSubject(wcur[w].node)) /\ n \notin faults.canon
       IN /\ visited' = visited (+) SetToBag({n})
          /\ queue' = AfterCallback(CallbackState(n \notin faults.canon), queue)
          /\ IF selected
             THEN /\ wres' = [wres EXCEPT ![w] = [file_path |-> n, matches |-> <<>>]]
                  /\ wpc' = [wpc EXCEPT ![w] = "lock"]
                  /\ wcur' = wcur
             ELSE /\ wres' = wres
                  /\ wpc' = [wpc EXCEPT ![w] = "idle"]
                  /\ wcur' = [wcur EXCEPT ![w] = NoWork]
    /\ UNCHANGED <<exceptSearch, content, unreadable, faults, req, cpc, ret, arcStrong, lockHolder,
                   results, opened>>

\* a directory or a symbolic link (links are not followed): the callback
\* does nothing with it; the children of a directory that can be listed,
\* those not skipped and not beyond max_depth, become work (a directory that
\* cannot be listed is handed to the callback once more as Err, and dropped)
VisitOther(w) ==
    /\ wpc[w] = "visit"
    /\ NodeKind(wcur[w].node) # "file"
    /\ LET n == wcur[w].node
           listed == NodeKind(n) = "dir" /\ n \notin faults.dirs
       IN /\ visited' = visited (+) SetToBag({n})
          /\ queue' = AfterCallback(CallbackState(NodeKind(n) # "dir" \/ listed),
                                    IF listed THEN queue (+) ChildWork(n, wcur[w].depth)
                                    ELSE queue)
    /\ wpc' = [wpc EXCEPT ![w] = "idle"]
    /\ wcur' = [wcur EXCEPT ![w] = NoWork]
    /\ UNCHANGED <<exceptSearch, content, unreadable, faults, req, cpc, ret, arcStrong, wres, lockHolder,
                   results, opened>>

\* results.lock().unwrap()
Lock(w) ==
    /\ wpc[w] = "lock"
    /\ lockHolder = 0
    /\ lockHolder' = w
    /\ wpc' = [wpc EXCEPT ![w] = "push"]
    /\ UNCHANGED <<exceptSearch, content, unreadable, faults, req, cpc, ret, arcStrong, queue, wcur, wres,
                   results, visited, opened>>

\* what is appended: a SearchResult, or the canonical path alone
Pushed(r) == IF req.mode = "content" THEN r ELSE r.file_path

\* mutant of VecPush: the new element takes the place of the last one
VecOverwriteLast(v, x) == IF v = <<>> THEN <<x>> ELSE [v EXCEPT ![Len(v)] = x]

\* Vec::push
VecPush(v, x) == Append(v, x)

\* mutant of GuardDropped: the guard outlives the block of the push
GuardKept(holder) == holder

\* the holder of the Mutex after the MutexGuard goes out of scope
GuardDropped(holder) == 0

\* results.push(..); the guard is dropped at the end of the block
Push(w) ==
    /\ wpc[w] = "push"
    /\ lockHolder = w
    /\ results' = VecPush(results, Pushed(wres[w]))
    /\ lockHolder' = GuardDropped(lockHolder)
    /\ wpc' = [wpc EXCEPT ![w] = "idle"]
    /\ wcur' = [wcur EXCEPT ![w] = NoWork]
    /\ wres' = [wres EXCEPT ![w] = NoResult]
    /\ UNCHANGED <<exceptSearch, content, unreadable, faults, req, cpc, ret, arcStrong, queue, visited, opened>>

\* quiescence: no pending work and no thread handling an entry; the thread
\* ends and its callback (with its Arc clone) is dropped
Exit(w) ==
    /\ cpc = "walking"
    /\ wpc[w] = "idle"
    /\ BagToSet(queue) = {}
    /\ \A v \in Workers : wpc[v] \in {"idle", "exited"}
    /\ wpc' = [wpc EXCEPT ![w] = "exited"]
    /\ arcStrong' = arcStrong - 1
    /\ UNCHANGED <<exceptSearch, content, unreadable, faults, req, cpc, ret, queue, wcur, wres, lockHolder,
                   results, visited, opened>>

Next ==
    \/ Compile
    \/ StartWalk
    \/ Join
    \/ Finalize
    \/ \E w \in Workers : Take(w)
    \/ \E w \in Workers : VisitContentFile(w)
    \/ \E w \in Workers : VisitNameFile(w)
    \/ \E w \in Workers : VisitOther(w)
    \/ \E w \in Workers : Lock(w)
    \/ \E w \in Workers : Push(w)
    \/ \E w \in Workers : Exit(w)

Spec == Init /\ [][Next]_vars

(***************************************************************************)
(* RustFileOperations: read_file, write_file and read_dir, called by       *)
(* concurrent tasks on one file system.                                    *)
(***************************************************************************)
\* the search state while only the file operations run
SearchIdle ==
    /\ content = BaseContent /\ unreadable = {} /\ faults = NoFaults /\ req = DefaultRequest
    /\ cpc = "start" /\ ret = Pending /\ arcStrong = 0 /\ queue = EmptyBag
    /\ wpc = [w \in Workers |-> "unborn"] /\ wcur = [w \in Workers |-> NoWork]
    /\ wres = [w \in Workers |-> NoResult] /\ lockHolder = 0 /\ results = <<>>
    /\ visited = EmptyBag /\ opened = {}

\* the directory is empty, or holds one file written before
DiskChoices == {NoDisk, [NoDisk EXCEPT !["/t/a"] = <<"2", "3">>]}

InitFileOps ==
    /\ SearchIdle /\ CtxIdle /\ MonIdle /\ OpIdle
    /\ disk \in DiskChoices
    /\ written = NoDisk
    /\ ftask = [t \in Tasks |-> NoCall]
    /\ returned = NoReturn

ReadFailedReason == "Failed to read file"
WriteFailedReason == "Failed to write file"
ReadDirFailedReason == "Failed to read directory"

\* a task is between the start and the end of a write_file on path p
WritingTo(t, p) == ftask[t].pc # "idle" /\ ftask[t].path = p

\* a call and what it returned
Returned(op, p, r) == [op |-> op, path |-> p, ret |-> r]

\* mutant of OpenForWrite: the file is opened without truncating it
OpenKeeping(old) == IF old = Absent THEN <<>> ELSE old

\* File::create inside fs::write: the file is created, or truncated to length 0
OpenForWrite(old) == <<>>

\* write_all at offset 0 of the open file
WriteAll(old, data) == data \o SubSeq(old, Len(data) + 1, Len(old))

\* mutant of Store: the bytes also replace those of the other files that
\* exist in the same directory
StoreClobbering(d, p, bytes) ==
    [q \in FPaths |-> IF q = p \/ (FParent(q) = FParent(p) /\ d[q] # Absent) THEN bytes
                      ELSE d[q]]

\* the file system after the bytes of the file named by the path are set
Store(d, p, bytes) == [d EXCEPT ![p] = bytes]

\* write_file is called; a write_file that overlaps another one on the same
\* path is marked, on both sides
WriteFileCall(t) ==
    /\ ftask[t].pc = "idle"
    /\ \E p \in FPaths, d \in Buffers :
          ftask' = [u \in Tasks |->
                      IF u = t
                      THEN [pc |-> "create", path |-> p, data |-> d,
                            alone |-> \A v \in Tasks \ {t} : ~WritingTo(v, p)]
                      ELSE IF WritingTo(u, p) THEN [ftask[u] EXCEPT !.alone = FALSE]
                      ELSE ftask[u]]
    /\ returned' = NoReturn
    /\ UNCHANGED <<exceptFile, disk, written>>

\* fs::write opens the file: an error if the directory does not exist
WriteFileCreate(t) ==
    /\ ftask[t].pc = "create"
    /\ LET p == ftask[t].path
       IN IF FParent(p) = FDir
          THEN /\ disk' = Store(disk, p, OpenForWrite(disk[p]))
               /\ ftask' = [ftask EXCEPT ![t].pc = "write"]
               /\ returned' = NoReturn
          ELSE /\ disk' = disk
               /\ ftask' = [ftask EXCEPT ![t] = NoCall]
               /\ returned' = Returned("write_file", p, Err(WriteFailedReason))
    /\ UNCHANGED <<exceptFile, written>>

\* fs::write writes the buffer and write_file returns Ok(())
WriteFileDone(t) ==
    /\ ftask[t].pc = "write"
    /\ LET p == ftask[t].path
       IN /\ disk' = Store(disk, p, WriteAll(disk[p], ftask[t].data))
          /\ written' = [written EXCEPT ![p] = IF ftask[t].alone THEN ftask[t].data ELSE Absent]
          /\ ftask' = [ftask EXCEPT ![t] = NoCall]
          /\ returned' = Returned("write_file", p, Ok(<<>>))
    /\ UNCHANGED exceptFile

\* mutant of FsRead: a file that does not exist reads as an empty one
FsReadMissingAsEmpty(file) == IF file = Absent THEN Ok(<<>>) ELSE Ok(file)

\* fs::read(&path).await.map_err(..): the bytes of the file, or the error
FsRead(file) == IF file = Absent THEN Err(ReadFailedReason) ELSE Ok(file)

\* read_file: fs::read returns the bytes of the file, or fails
ReadFile(t) ==
    /\ ftask[t].pc = "idle"
    /\ \E p \in FPaths : returned' = Returned("read_file", p, FsRead(disk[p]))
    /\ UNCHANGED <<exceptFile, disk, written, ftask>>

\* the names of the files of a directory, in some order
Listings(d) ==
    LET names == {FName(p) : p \in {p \in FPaths : FParent(p) = d /\ disk[p] # Absent}}
    IN {s \in UNION {[1..n -> names] : n \in 0..Cardinality(names)} :
            Len(s) = Cardinality(names) /\ {s[i] : i \in 1..Len(s)} = names}

\* read_dir: the file names of the entries, or an error
ReadDir(t) ==
    /\ ftask[t].pc = "idle"
    /\ \E d \in {FDir, FMissingDir} :
          IF d = FDir
          THEN \E s \in Listings(d) : returned' = Returned("read_dir", d, Ok(s))
          ELSE returned' = Returned("read_dir", d, Err(ReadDirFailedReason))
    /\ UNCHANGED <<exceptFile, disk, written, ftask>>

NextFileOps ==
    \E t \in Tasks :
        \/ WriteFileCall(t)
        \/ WriteFileCreate(t)
        \/ WriteFileDone(t)
        \/ ReadFile(t)
        \/ ReadDir(t)

SpecFileOps == InitFileOps /\ [][NextFileOps]_vars

(***************************************************************************)
(* Vocabulary of the properties.                                           *)
(***************************************************************************)
Done == cpc = "done"

ContentCall == req.mode = "content"

\* the file path of an element of the shared vector
PathOf(e) == IF req.mode = "content" THEN e.file_path ELSE e

ResultPaths == {PathOf(results[i]) : i \in 1..Len(results)}

Parent(n) ==
    CASE n \in {"/r/a.txt", "/r/b_skip.txt", "/r/.h", "/r/d"} -> "/r"
      [] n = "/r/.h/x.txt" -> "/r/.h"
      [] n \in {"/r/d/e.rs", "/r/d/up"} -> "/r/d"
      [] OTHER -> ""

\* n lies below dir (at any depth)
RECURSIVE Below(_, _)
Below(n, dir) == Parent(n) # "" /\ (Parent(n) = dir \/ Below(Parent(n), dir))

\* some path component of n below the root starts with '.'
RECURSIVE HiddenBelow(_, _)
HiddenBelow(n, root) ==
    Below(n, root) /\ (IsHidden(n) \/ HiddenBelow(Parent(n), root))

EndsWith(s, suffix) ==
    Len(suffix) <= Len(s) /\ SubSeq(s, Len(s) - Len(suffix) + 1, Len(s)) = suffix

\* glob semantics: "*<suffix>" matches on the file name, any other entry
\* names a path and matches it and what lies below it
GlobMatches(g, n) ==
    CASE g = "*.txt"      -> EndsWith(FileName(n), <<".", "t", "x", "t">>)
      [] g = "*_skip.txt" -> EndsWith(FileName(n), <<"_", "s", "k", "i", "p", ".", "t", "x", "t">>)
      [] OTHER            -> n = g \/ Below(n, g)

MatchesAny(globs, n) == \E i \in 1..Len(globs) : GlobMatches(globs[i], n)

IncludeGlobs == UnwrapOr(Opts.include_patterns, <<>>)
ExcludeGlobs == UnwrapOr(Opts.exclude_patterns, <<>>)

\* the pattern has a group that is never closed: not a regular expression
UnclosedGroup(p) == \E i \in 1..Len(p) : p[i] = "("

ContainsNul(c) == \E k \in 1..Len(c) : HasNul(c[k])

\* number of lines of a content that match the pattern
MatchingLines(c, p) ==
    Cardinality(UNION {{<<k, i>> : i \in {i \in 1..Len(c[k]) : IsMatch(p, c[k][i])}} :
                          k \in 1..Len(c)})

\* the files the path filter of the specification lets through: below the
\* root, no hidden component unless include_hidden, matching an include glob
\* if any is given, matching no exclude glob
Eligible(f) ==
    /\ f \in Files
    /\ Below(f, req.root_path)
    /\ UnwrapOr(Opts.include_hidden, FALSE) \/ ~HiddenBelow(f, req.root_path)
    /\ IncludeGlobs = <<>> \/ MatchesAny(IncludeGlobs, f)
    /\ ~MatchesAny(ExcludeGlobs, f)
    /\ f \notin unreadable
    /\ ~ContainsNul(content[f])

(***************************************************************************)
(* Properties.                                                             *)
(***************************************************************************)

\* C1: a call whose pattern compiles and whose root is an existing directory
\* ends successfully, returning the aggregated results: the finalize step
\* that takes the vector out of the Arc<Mutex<Vec>> never fails.
C1_CallReturnsAggregatedResults ==
    (Done /\ Compiles(req.pattern) /\ req.root_path \in Dirs)
        => (ret.kind = "Ok" /\ ret.value = results)

\* C2: when every eligible text file has exactly one matching line, and there
\* are N of them, search_content returns exactly N results, one per file,
\* each with exactly one Match.
C2_OneResultPerEligibleFile ==
    (Done /\ ContentCall /\ Compiles(req.pattern) /\ req.root_path \in Dirs
          /\ Opts.max_depth = NoneOpt
          /\ \A f \in Files : Eligible(f) => MatchingLines(content[f], req.pattern) = 1)
        => /\ ret.kind = "Ok"
           /\ Len(ret.value) = Cardinality({f \in Files : Eligible(f)})
           /\ {ret.value[i].file_path : i \in 1..Len(ret.value)} = {f \in Files : Eligible(f)}
           /\ \A i \in 1..Len(ret.value) : Len(ret.value[i].matches) = 1

\* C3: a pattern that does not compile makes the call fail with the
\* invalid-pattern error: no walker thread is started, no entry is handed to
\* a callback, no file is opened, and no result list is built or returned.
C3_InvalidPatternAborts ==
    UnclosedGroup(req.pattern)
        => /\ cpc \in {"start", "done"}
           /\ Done => (ret.kind = "Err" /\ ret.reason = InvalidPatternReason)
           /\ ~Done => ret = Pending
           /\ \A w \in Workers : wpc[w] = "unborn"
           /\ BagToSet(visited) = {}
           /\ opened = {}
           /\ results = <<>>
           /\ arcStrong = 0

\* C3 witness: a call with a pattern that does not compile has returned
C3_Witness ==
    UnclosedGroup(req.pattern) /\ Done /\ ret.kind = "Err"

\* C4: a root that does not exist or is not a directory makes the call fail
\* with PathNotFound and aborts it: nothing is walked, scanned or collected,
\* and no result list is returned.
C4_BadRootIsPathNotFound ==
    (Done /\ Compiles(req.pattern) /\ req.root_path \notin Dirs)
        => /\ ret.kind = "Err"
           /\ ret.reason = "PathNotFound"
           /\ BagToSet(visited) = {}
           /\ opened = {}
           /\ results = <<>>

\* C5: in the collection built by one call a file path appears at most once.
C5_NoDuplicatePaths ==
    \A i, j \in 1..Len(results) : i # j => PathOf(results[i]) # PathOf(results[j])

\* C6: every SearchResult in the shared collection of a content search has
\* a non-empty matches list.
C6_NoEmptyMatchList ==
    ContentCall => \A i \in 1..Len(results) : results[i].matches # <<>>

\* C6 witness: a readable file without a matching line has been scanned,
\* the walk is over and the collection holds results of other files
C6_Witness ==
    /\ ContentCall /\ Done
    /\ "/r/a.txt" \in opened
    /\ MatchingLines(content["/r/a.txt"], req.pattern) = 0
    /\ Len(results) > 0

\* C7: a file in which a NUL byte is seen during the scan records no match
\* and never appears in the content results, wherever its matching lines are.
C7_NulFileNeverCollected ==
    ContentCall =>
        /\ \A i \in 1..Len(results) : ~ContainsNul(content[results[i].file_path])
        /\ \A w \in Workers : wres[w] # NoResult => ~ContainsNul(content[wres[w].file_path])

\* C8: with include and exclude globs both given, a file that matches an
\* exclude glob is not in the results, whether or not it matches an include
\* glob: exclude wins.
C8_ExcludeWins ==
    (ContentCall /\ IncludeGlobs # <<>> /\ ExcludeGlobs # <<>>)
        => \A f \in ResultPaths : ~MatchesAny(ExcludeGlobs, f)

\* C9: with include globs given, only files matching one of them are
\* searched or returned (the include entries add nothing to what is walked).
C9_OnlyIncludedFiles ==
    (ContentCall /\ IncludeGlobs # <<>>)
        => /\ \A f \in ResultPaths : MatchesAny(IncludeGlobs, f)
           /\ \A f \in opened : MatchesAny(IncludeGlobs, f)

\* C10: with include_hidden false or omitted, no file reached through a
\* hidden path component below the root is handed to a callback or collected.
C10_HiddenPruned ==
    (ContentCall /\ req.root_path \in Dirs /\ ~UnwrapOr(Opts.include_hidden, FALSE))
        => /\ \A f \in BagToSet(visited) \cap Files : ~HiddenBelow(f, req.root_path)
           /\ \A f \in ResultPaths : ~HiddenBelow(f, req.root_path)

\* the walk is over: every walker thread has been joined
Quiescent == cpc \in {"joined", "done"}

\* the files of the tree that the specification's filter lets through and
\* that have a matching line
EligibleMatching == {f \in Files : Eligible(f) /\ MatchingLines(content[f], req.pattern) > 0}

\* C11: with max_depth = 0 the matches come exactly from the files that are
\* direct children of the root; with max_depth omitted, from the files at
\* every depth.
C11_DepthZeroIsDirectChildren ==
    (ContentCall /\ Quiescent /\ req.root_path \in Dirs
        /\ IncludeGlobs = <<>> /\ ExcludeGlobs = <<>>
        /\ \A f \in Files : ~ContainsNul(content[f]))
        => /\ Opts.max_depth = Some(0) =>
                 ResultPaths = {f \in EligibleMatching : Parent(f) = req.root_path}
           /\ Opts.max_depth = NoneOpt => ResultPaths = EligibleMatching

\* the files on which some step of the per-file handling fails
Faulted == unreadable \cup faults.canon \cup faults.read

\* the files that the walk cannot reach because a directory above them
\* cannot be listed
Unlisted == {f \in Files : \E d \in faults.dirs : Below(f, d)}

\* C12: in a call whose pattern compiles, a per-entry failure (a directory
\* that cannot be listed, a failing canonicalize, open or read) skips that
\* entry only: once the walk is over no failed file has a SearchResult, every
\* other reachable eligible matching file has one, and the value returned is
\* decided by the unwrap of the vector alone, never by the failure.
C12_FailureSkipsOnlyThatFile ==
    (ContentCall /\ Quiescent /\ ~UnclosedGroup(req.pattern) /\ req.root_path \in Dirs
        /\ IncludeGlobs = <<>> /\ ExcludeGlobs = <<>> /\ Opts.max_depth = NoneOpt)
        => /\ ResultPaths \cap Faulted = {}
           /\ (EligibleMatching \ (Faulted \cup Unlisted)) \subseteq ResultPaths
           /\ Done => ret = IF arcStrong = 1 THEN Ok(results) ELSE Err(UnwrapFailedReason)

\* a file whose open failed was handed to a callback, another file that
\* matches was collected, and the call returned
C12_Witness ==
    /\ ContentCall /\ Done /\ req.root_path \in Dirs
    /\ \E f \in Faulted : f \in BagToSet(visited)
    /\ \E f \in Files \ Faulted : f \in ResultPaths

\* the matcher that matches the pattern byte for byte
Exact(p) == [pat |-> p, fold |-> FALSE]

\* a callback on file f decides to push: the scan found a match, or the file
\* name matches, and no step failed
Accepted(f) ==
    IF ContentCall
    THEN f \notin Faulted /\ search_in_file(content[f], TRUE, Exact(req.pattern)).matches # <<>>
    ELSE f \notin faults.canon /\ IsMatch(req.pattern, FileName(f))

\* the number of callback runs on the files of S
RECURSIVE VisitsOf(_)
VisitsOf(S) ==
    IF S = {} THEN 0
    ELSE LET f == CHOOSE f \in S : TRUE IN CopiesIn(f, visited) + VisitsOf(S \ {f})

\* the pushes decided so far, one per callback run on an accepted file
PushesDecided == VisitsOf({f \in Files : Accepted(f)})

\* the workers that decided a push and have not performed it yet
PushesPending == {w \in Workers : wpc[w] \in {"lock", "push"}}

\* what the element of the shared vector for a decided push is
ElementOf(r) == IF ContentCall THEN r ELSE r.file_path

\* C13: no push is lost or overwritten under any interleaving: the length of
\* the shared vector plus the pushes still pending is the number of pushes
\* decided (so the final length is the number of pushes performed), and the
\* vector only ever changes by one worker appending its own result.
C13_NoPushLost ==
    /\ [](Len(results) + Cardinality(PushesPending) = PushesDecided)
    /\ [][results' # results =>
            \E w \in Workers : /\ wpc[w] = "push"
                               /\ results' = Append(results, ElementOf(wres[w]))]_vars

\* two workers hold a result at the same moment while the vector already has
\* an element
C13_Witness ==
    /\ Cardinality(PushesPending) = 2
    /\ Len(results) >= 1

\* the match lists that exist: those of the collected SearchResults and those
\* a worker holds for its push
MatchLists ==
    {results[i].matches : i \in 1..Len(results)}
    \cup {wres[w].matches : w \in {w \in Workers : wpc[w] \in {"lock", "push"}}}

\* C14: in a content search, within every SearchResult the matches are in
\* line order: line_number and column_start are strictly increasing along the
\* sequence, in every interleaving.
C14_MatchesInLineOrder ==
    ContentCall =>
        \A ms \in MatchLists : \A i, j \in 1..Len(ms) :
            i < j => /\ ms[i].line_number < ms[j].line_number
                     /\ ms[i].column_start < ms[j].column_start

\* a collected SearchResult with two matches, while another worker is at
\* work on an entry
C14_Witness ==
    /\ ContentCall
    /\ \E i \in 1..Len(results) : Len(results[i].matches) >= 2
    /\ \E w \in Workers : wpc[w] \in {"visit", "lock", "push"}

\* the lines of a content, in file order
RECURSIVE LinesOf(_, _)
LinesOf(c, k) == IF k > Len(c) THEN <<>> ELSE c[k] \o LinesOf(c, k + 1)

\* the 1-based indices of the lines of a file that match the pattern
MatchingLineNumbers(f) ==
    {i \in 1..Len(LinesOf(content[f], 1)) : IsMatch(req.pattern, LinesOf(content[f], 1)[i])}

\* C15: in a content search every matching line of a scanned file without
\* NUL byte yields exactly one Match, whose line_number is the 1-based index of
\* the line (never 0): the list of a SearchResult has one Match per matching
\* line and its line numbers are exactly the indices of the matching lines.
C15_OneMatchPerLineOneBased ==
    ContentCall =>
        \A i \in 1..Len(results) :
            LET f == results[i].file_path
                ms == results[i].matches
            IN /\ \A j \in 1..Len(ms) : ms[j].line_number >= 1
               /\ ~ContainsNul(content[f]) =>
                    /\ {ms[j].line_number : j \in 1..Len(ms)} = MatchingLineNumbers(f)
                    /\ Len(ms) = Cardinality(MatchingLineNumbers(f))

\* the scenario of the specification: one file is "foo\nbar", the other
\* "bar\nfoo"; the first is collected with one Match at line 1, the second
\* with one Match at line 2
C15_Witness ==
    /\ ContentCall /\ req.pattern = PFoo
    /\ content["/r/a.txt"] = CFooBar /\ content["/r/b_skip.txt"] = CBarFoo
    /\ \E i, j \in 1..Len(results) :
          /\ results[i].file_path = "/r/a.txt"
          /\ Len(results[i].matches) = 1 /\ results[i].matches[1].line_number = 1
          /\ results[j].file_path = "/r/b_skip.txt"
          /\ Len(results[j].matches) = 1 /\ results[j].matches[1].line_number = 2

\* the byte offset in the file at which line i (1-based) starts
RECURSIVE LineOffset(_, _)
LineOffset(lines, i) == IF i <= 1 THEN 0 ELSE LineOffset(lines, i - 1) + Len(lines[i - 1])

\* the position in a matching line (0-based) at which the matched span starts
SpanStart(p, line) == (CHOOSE i \in 1..Len(line) : OccursAt(p, line, i) /\
                          \A j \in 1..(i - 1) : ~OccursAt(p, line, j)) - 1

\* C16: in a content search, for every Match of a collected file without NUL
\* byte, column_start and column_end are the absolute byte offsets in the
\* file of the span the pattern matched, not those of the line that contains
\* it.
C16_OffsetsOfMatchedSpan ==
    ContentCall =>
        \A i \in 1..Len(results) :
            LET f == results[i].file_path
                ms == results[i].matches
                lines == LinesOf(content[f], 1)
            IN ~ContainsNul(content[f]) =>
                 \A j \in 1..Len(ms) :
                    LET ln == ms[j].line_number
                        start == LineOffset(lines, ln) + SpanStart(req.pattern, lines[ln])
                    IN /\ ms[j].column_start = start
                       /\ ms[j].column_end = start + Len(req.pattern)

\* the scheduler lets every thread that can take a step take one eventually
SpecFair == Spec /\ WF_vars(Next)

\* every call eventually returns
Terminates == <>Done

\* C17: on the tree, in which the directory /r/d holds a symbolic link back
\* to its ancestor /r, every call eventually returns under fair scheduling, and
\* the collection it ends with holds no file twice.
C17_LoopTerminatesWithoutDuplicates ==
    /\ Terminates
    /\ [](Quiescent => \A f \in Files :
                          Cardinality({i \in 1..Len(results) : PathOf(results[i]) = f}) <= 1)

\* the shared vector as a bag: its elements without their order
RECURSIVE BagOfSeq(_)
BagOfSeq(v) == IF v = <<>> THEN EmptyBag ELSE SetToBag({Head(v)}) (+) BagOfSeq(Tail(v))

\* what a run of the walk on one thread collects from the given work: a
\* function of the tree, the request and the work alone
RECURSIVE SequentialWalk(_)
SequentialWalk(work) ==
    IF BagToSet(work) = {} THEN EmptyBag
    ELSE LET x == CHOOSE x \in BagToSet(work) : TRUE
             rest == work (-) SetToBag({x})
             n == x.node
         IN IF n \in Files
            THEN SequentialWalk(rest) (+)
                 (IF Accepted(n)
                  THEN SetToBag({ElementOf([file_path |-> n,
                          matches |-> search_in_file(content[n], TRUE, Exact(req.pattern)).matches])})
                  ELSE EmptyBag)
            ELSE IF n \in Dirs \ faults.dirs
            THEN SequentialWalk(rest (+) ChildWork(n, x.depth))
            ELSE SequentialWalk(rest)

\* what a call returns, given its pattern
ReturnOf(p) == IF UnclosedGroup(p) THEN Err(InvalidPatternReason) ELSE Err(UnwrapFailedReason)

\* C18: the outcome of a content search is the same in every run with the
\* same root, pattern, options and tree, whatever the interleaving: once the
\* walk is over the collected results are, up to their order, those of the
\* walk on one thread (same files, same match list each), and the value
\* returned depends on the pattern only.
C18_SameInputsSameResults ==
    ContentCall =>
        /\ (Quiescent /\ ~UnclosedGroup(req.pattern)) =>
                BagOfSeq(results) = SequentialWalk(RootWork(CfgPaths))
        /\ Done => ret = ReturnOf(req.pattern)

\* a call that collected the results of two files, the one found deeper in
\* the tree first, and returned
C18_Witness ==
    /\ ContentCall /\ Done
    /\ Len(results) >= 2
    /\ results[1].file_path = "/r/d/e.rs"

\* the regular files at or below the root of the call
Reachable == {f \in Files : f = Canonicalize(req.root_path) \/ Below(f, req.root_path)}

ReadsNow(p) == returned'.op = "read_file" /\ returned'.path = p

\* no write_file on path p is under way
NoWriteUnderWay(p) == \A u \in Tasks : ~WritingTo(u, p)

\* C20: a read_file(path) made after a write_file(path, data) that succeeded,
\* with no other write_file on the path under way or overlapping it, returns
\* exactly the bytes of data, the empty buffer included; after two successive
\* writes these are the bytes of the second one, with nothing left of the
\* first.
C20_ReadReturnsLastWrite ==
    [][\A p \in FPaths :
          (ReadsNow(p) /\ written[p] # Absent /\ NoWriteUnderWay(p))
              => returned'.ret = Ok(written[p])]_vars

\* the file /t/a was last written with the empty buffer, and the read_file
\* that has just returned read no byte
C20_Witness ==
    /\ written["/t/a"] = <<>>
    /\ NoWriteUnderWay("/t/a")
    /\ returned = Returned("read_file", "/t/a", Ok(<<>>))

\* a call of the given operation on the given path returns in this step
ReturnsNow(op, p) == returned'.op = op /\ returned'.path = p

\* C21: read_file on a path that does not exist returns an error with the
\* reason "Failed to read file", read_dir on a directory that does not exist
\* one with the reason "Failed to read directory"; neither creates the path
\* nor changes the file system.
C21_MissingPathIsError ==
    [][/\ \A p \in FPaths :
            (ReturnsNow("read_file", p) /\ disk[p] = Absent)
                => /\ returned'.ret = Err(ReadFailedReason)
                   /\ disk' = disk
       /\ ReturnsNow("read_dir", FMissingDir)
            => /\ returned'.ret = Err(ReadDirFailedReason)
               /\ disk' = disk]_vars

\* a read_file of a path in the missing directory has just returned its
\* error, after a file was written elsewhere
C21_Witness ==
    /\ returned = Returned("read_file", "/nodir/x", Err(ReadFailedReason))
    /\ disk["/nodir/x"] = Absent
    /\ written["/t/b"] # Absent

\* the files of the directory /t
InDir == {p \in FPaths : FParent(p) = FDir}

\* the names a read_dir has returned, as a set
NamesOf(v) == {v[i] : i \in 1..Len(v)}

\* C22: write_file calls that run concurrently on distinct paths of one
\* directory do not interfere. Every write_file on a path of the directory
\* returns Ok; a file whose last write_file ran without another one on the
\* same path holds exactly the data of that write, whatever is written to
\* the other paths meanwhile, and a read_file of it returns that data; a
\* read_dir made when no write is under way lists each existing file once,
\* every file written among them.
C22_DistinctPathsDoNotInterfere ==
    /\ [](\A p \in InDir : (written[p] # Absent /\ NoWriteUnderWay(p)) => disk[p] = written[p])
    /\ [][/\ \A p \in InDir : ReturnsNow("write_file", p) => returned'.ret = Ok(<<>>)
          /\ \A p \in InDir :
                (ReturnsNow("read_file", p) /\ written[p] # Absent /\ NoWriteUnderWay(p))
                    => returned'.ret = Ok(written[p])
          /\ (ReturnsNow("read_dir", FDir) /\ \A p \in InDir : NoWriteUnderWay(p))
                => /\ returned'.ret.kind = "Ok"
                   /\ Len(returned'.ret.value) = Cardinality(NamesOf(returned'.ret.value))
                   /\ NamesOf(returned'.ret.value) = {FName(p) : p \in {p \in InDir : disk[p] # Absent}}
                   /\ {FName(p) : p \in {p \in InDir : written[p] # Absent}}
                         \subseteq NamesOf(returned'.ret.value)]_vars

\* while a write_file on /t/b is under way, between opening the file and
\* writing it, a read_file of /t/a has just returned the data written to /t/a
C22_Witness ==
    /\ \E t \in Tasks : ftask[t].pc = "write" /\ ftask[t].path = "/t/b"
    /\ written["/t/a"] = <<"2", "3">>
    /\ returned = Returned("read_file", "/t/a", Ok(<<"2", "3">>))

\* C23: the shared vector is finalized only after the walk has reached
\* quiescence: from the return of the walk on, no work is pending, no worker
\* is handling an entry or holds the lock, and once the call has finalized
\* nothing is pushed into the vector any more.
C23_FinalizeAfterQuiescence ==
    /\ [](Quiescent => /\ BagToSet(queue) = {}
                       /\ lockHolder = 0
                       /\ \A w \in Workers : wpc[w] \in {"unborn", "exited"} /\ wcur[w] = NoWork)
    /\ [][Quiescent => results' = results]_vars

\* the call has finalized with two results in the vector, every walker
\* thread having ended
C23_Witness ==
    /\ Done
    /\ Len(results) >= 2
    /\ \A w \in Workers : wpc[w] = "exited"

\* C24: no worker holds the mutex of the vector while it canonicalizes,
\* opens, reads or scans: the holder of the lock is at its push, with the
\* result of its finished scan in hand, every other worker is outside the
\* lock, and the step the holder takes next is the push that releases the
\* lock.
C24_LockOnlyForPush ==
    /\ [](/\ \A w \in Workers : (lockHolder = w) <=> (wpc[w] = "push")
          /\ \A w \in Workers : wpc[w] = "push" =>
                /\ wres[w] # NoResult
                /\ wcur[w].node \in BagToSet(visited) \/ Canonicalize(wcur[w].node) \in BagToSet(visited))
    /\ [][\A w \in Workers :
            (lockHolder = w /\ (wpc'[w] # wpc[w] \/ wres'[w] # wres[w] \/ wcur'[w] # wcur[w]))
                => lockHolder' = 0 /\ Len(results') = Len(results) + 1]_vars

\* one worker holds the lock for its push while the other is scanning a file
C24_Witness ==
    \E w, v \in Workers :
        /\ lockHolder = w /\ wpc[w] = "push"
        /\ wpc[v] = "visit" /\ NodeKind(wcur[v].node) = "file"

\* the matches of a file under byte-for-byte matching of the pattern
ExactMatches(f) == search_in_file(content[f], TRUE, Exact(req.pattern)).matches

\* the options differ from the default ones in case_sensitive at most
OnlyCaseOption == Opts = [DefaultOptions EXCEPT !.case_sensitive = Opts.case_sensitive]

\* C25: case_sensitive does not influence matching: whatever its value
\* (true, false or absent), once the walk is over every collected file has
\* the match list of byte-for-byte matching, the collected files are the
\* scanned ones for which that list is not empty, and in two calls that
\* differ in case_sensitive only they are the same set of files.
C25_CaseSensitiveIgnored ==
    (ContentCall /\ Quiescent /\ ~UnclosedGroup(req.pattern)) =>
        /\ \A i \in 1..Len(results) : results[i].matches = ExactMatches(results[i].file_path)
        /\ ResultPaths = {f \in (BagToSet(visited) \cap Files) \ Faulted : ExactMatches(f) # <<>>}
        /\ (OnlyCaseOption /\ req.root_path \in Dirs /\ faults = NoFaults
                /\ \A f \in Files : ~ContainsNul(content[f]))
              => ResultPaths = EligibleMatching

\* case_sensitive is false and /r/a.txt is "FOO\nfoo": the file is collected
\* with the one match of line 2
C25_Witness ==
    /\ ContentCall /\ Done /\ Opts.case_sensitive = Some(FALSE)
    /\ content["/r/a.txt"] = CUpper
    /\ \E i \in 1..Len(results) :
          /\ results[i].file_path = "/r/a.txt"
          /\ Len(results[i].matches) = 1
          /\ results[i].matches[1].line_number = 2

-----------------------------------------------------------------------------
\* AIOrchestrator's context cache (ai_orchestrator/mod.rs)

\* ContextStore.max_size; the code's value is 100
MaxSize == 2

\* the keys of the HashMap, and its len()
Present(store) == {k \in CKeys : store[k] # NoContext}
Size(store) == Cardinality(Present(store))

\* the test that decides an eviction, taken before the insertion
ShouldEvictAbove(len, max) == len > max
ShouldEvict(len, max) == len >= max

\* self.cache.keys().next(): the first key of the HashMap's iteration, which
\* follows the hashes of the keys under the map's random state and not the
\* insertions: any key present can be the first one
FirstKeys(store) == Present(store)

\* HashMap::remove and HashMap::insert
MapRemove(store, k) == [store EXCEPT ![k] = NoContext]
MapInsert(store, k, c) == [store EXCEPT ![k] = c]

\* the sequence o without its element k
Without(o, k) == SelectSeq(o, LAMBDA x : x # k)

\* the order of insertion after key k was inserted: a key already present
\* keeps its place
Inserted(o, k) == IF \E i \in 1..Len(o) : o[i] = k THEN o ELSE Append(o, k)

\* ContextStore::cache on a store, with first the key keys().next() gives
StoreCache(store, first, k, c) ==
    IF ShouldEvict(Size(store), MaxSize) /\ first \in FirstKeys(store)
    THEN MapInsert(MapRemove(store, first), k, c)
    ELSE MapInsert(store, k, c)

\* cache_context(key, context): the whole of ContextStore::cache runs under
\* the write lock of the store
CacheContext(k, c) ==
    \E first \in (IF FirstKeys(cache) = {} THEN {""} ELSE FirstKeys(cache)) :
        /\ cache' = StoreCache(cache, first, k, c)
        /\ cacheOrder' = IF ShouldEvict(Size(cache), MaxSize)
                         THEN Inserted(Without(cacheOrder, first), k)
                         ELSE Inserted(cacheOrder, k)
        /\ cacheRet' = [op |-> "cache_context", key |-> k, context |-> c, ret |-> Ok(<<>>)]
        /\ UNCHANGED exceptCtx

\* ContextStore::get
StoreGet(store, k) == IF store[k] = NoContext THEN NoneOpt ELSE Some(store[k])

\* get_cached_context(key), under the read lock of the store
GetCachedContext(k) ==
    /\ cacheRet' = [op |-> "get_cached_context", key |-> k, context |-> NoContext,
                    ret |-> Ok(StoreGet(cache, k))]
    /\ UNCHANGED <<exceptCtx, cache, cacheOrder>>

InitContext ==
    /\ SearchIdle /\ FileIdle /\ MonIdle /\ OpIdle
    /\ CtxIdle

NextContext ==
    \/ \E k \in CKeys, c \in Contexts : CacheContext(k, c)
    \/ \E k \in CKeys : GetCachedContext(k)

SpecContext == InitContext /\ [][NextContext]_vars

\* the step evicts key k
Evicts(k) == cache[k] # NoContext /\ cache'[k] = NoContext

\* C26: when cache is called on a store that holds max_size entries, the
\* entry evicted is the one inserted earliest among those present; a key
\* cached later is never evicted while an older key remains.
C26_EvictsOldest ==
    [][\A k \in CKeys : Evicts(k) => k = Head(cacheOrder)]_vars

\* C27: the store never holds more than max_size entries; a
\* get_cached_context(k) that follows cache_context(k, c) directly returns c;
\* and get_cached_context leaves the store as it was.
C27_BoundedAndReadBack ==
    /\ [](Cardinality({k \in CKeys : cache[k] # NoContext}) <= MaxSize)
    /\ [][(cacheRet.op = "cache_context" /\ cacheRet'.op = "get_cached_context"
              /\ cacheRet'.key = cacheRet.key)
            => cacheRet'.ret = Ok(Some(cacheRet.context))]_vars
    /\ [][cacheRet'.op = "get_cached_context" => cache' = cache]_vars

\* the store is full and a get_cached_context has just returned the context
\* held under its key
C27_Witness ==
    /\ Cardinality({k \in CKeys : cache[k] # NoContext}) = MaxSize
    /\ cacheRet.op = "get_cached_context"
    /\ cacheRet.ret = Ok(Some(cache[cacheRet.key]))
    /\ cache[cacheRet.key] \in Contexts

-----------------------------------------------------------------------------
\* The handle-based PerformanceMonitor (performance_monitor.rs)

\* start_operation calls between two clear_stats
MaxStarts == 2

\* the length memory_samples is cut back to; the code's value is 60
SampleCap == 1

\* start_time.elapsed().as_micros() of the handles
Durations == {0, 3}

\* u64::MAX: the largest integer of the model stands for it
U64Max == 2147483647

\* OperationStats::default, and the same with the minimum starting at 0
DefaultStatsMinZero ==
    [count |-> 0, total_duration_us |-> 0, min_duration_us |-> 0,
     max_duration_us |-> 0, bytes_processed |-> 0]
DefaultStats ==
    [count |-> 0, total_duration_us |-> 0, min_duration_us |-> U64Max,
     max_duration_us |-> 0, bytes_processed |-> 0]

\* AtomicU64::fetch_add and AtomicU32::fetch_add
FetchAdd(x, n) == x + n

\* what complete() does to the counter of active operations: it has no
\* statement for it
ActiveAfterCompleteDecremented(n) == IF n > 0 THEN n - 1 ELSE 0
ActiveAfterComplete(n) == n

\* start_operation(operation_type): counts the operation and creates handle h
StartOperation(h, ty) ==
    /\ handles[h].pc = "none"
    /\ started < MaxStarts
    /\ active_operations' = FetchAdd(active_operations, 1)
    /\ handles' = [handles EXCEPT ![h] =
                      [pc |-> "held", operation_type |-> ty, bytes |-> 0, duration_us |-> 0]]
    /\ started' = started + 1
    /\ monRet' = [op |-> "start_operation", operation_type |-> ty, ret |-> Ok(h)]
    /\ UNCHANGED <<exceptMon, operation_stats, guard, memory_samples, completed>>

\* the entry of handle h's type
StatsOf(h) == operation_stats[handles[h].operation_type][1]

\* handle h is inside complete() at position pc, holding the entry of its type
Inside(h, pc) == handles[h].pc = pc /\ guard[handles[h].operation_type] = h

\* a step of complete() that changes the entry to e and moves on to pc
CompleteStep(h, e, pc) ==
    /\ operation_stats' = [operation_stats EXCEPT ![handles[h].operation_type] = Some(e)]
    /\ handles' = [handles EXCEPT ![h].pc = pc]
    /\ monRet' = NoMonReturn
    /\ UNCHANGED <<exceptMon, active_operations, guard, memory_samples, completed, started>>

\* complete(): the elapsed time is taken, and entry(..).or_insert_with(..)
\* waits for the entry of the type and holds it until complete() returns
CompleteEntry(h) ==
    /\ handles[h].pc = "held"
    /\ guard[handles[h].operation_type] = 0
    /\ \E d \in Durations :
          handles' = [handles EXCEPT ![h].pc = "count", ![h].duration_us = d]
    /\ guard' = [guard EXCEPT ![handles[h].operation_type] = h]
    /\ operation_stats' = [operation_stats EXCEPT ![handles[h].operation_type] =
                              IF @ = NoEntry THEN Some(DefaultStats) ELSE @]
    /\ monRet' = NoMonReturn
    /\ UNCHANGED <<exceptMon, active_operations, memory_samples, completed, started>>

\* stats.count.fetch_add(1)
CompleteCount(h) ==
    /\ Inside(h, "count")
    /\ CompleteStep(h, [StatsOf(h) EXCEPT !.count = FetchAdd(@, 1)], "total")

\* stats.total_duration_us.fetch_add(duration_us)
CompleteTotal(h) ==
    /\ Inside(h, "total")
    /\ CompleteStep(h, [StatsOf(h) EXCEPT
                           !.total_duration_us = FetchAdd(@, handles[h].duration_us)], "bytes")

\* stats.bytes_processed.fetch_add(self.bytes)
CompleteBytes(h) ==
    /\ Inside(h, "bytes")
    /\ CompleteStep(h, [StatsOf(h) EXCEPT
                           !.bytes_processed = FetchAdd(@, handles[h].bytes)], "min")

\* the compare-exchange loop on min_duration_us: no other thread changes the
\* entry while it is held, so the loop ends with the smaller of the two values
CompleteMin(h) ==
    /\ Inside(h, "min")
    /\ CompleteStep(h, [StatsOf(h) EXCEPT !.min_duration_us =
                           IF handles[h].duration_us < @ THEN handles[h].duration_us ELSE @],
                    "max")

\* the compare-exchange loop on max_duration_us
CompleteMax(h) ==
    /\ Inside(h, "max")
    /\ CompleteStep(h, [StatsOf(h) EXCEPT !.max_duration_us =
                           IF handles[h].duration_us > @ THEN handles[h].duration_us ELSE @],
                    "drop")

\* complete() returns: the entry is released and the handle is consumed
CompleteReturn(h) ==
    /\ Inside(h, "drop")
    /\ guard' = [guard EXCEPT ![handles[h].operation_type] = 0]
    /\ handles' = [handles EXCEPT ![h] = NoHandle]
    /\ active_operations' = ActiveAfterComplete(active_operations)
    /\ completed' = [completed EXCEPT ![handles[h].operation_type] =
                        @ (+) SetToBag({handles[h].duration_us})]
    /\ monRet' = [op |-> "complete", operation_type |-> handles[h].operation_type,
                  ret |-> Ok(h)]
    /\ UNCHANGED <<exceptMon, operation_stats, memory_samples, started>>

\* the OperationStatsResult made of an entry (without throughput_mbps)
StatsResult(e) ==
    [count |-> e.count,
     total_time_us |-> e.total_duration_us,
     average_time_us |-> IF e.count > 0 THEN e.total_duration_us \div e.count ELSE 0,
     min_time_us |-> IF e.count > 0 THEN e.min_duration_us ELSE 0,
     max_time_us |-> e.max_duration_us]

\* get_operation_stats(operation_type): DashMap::get waits while a complete()
\* holds the entry
GetOperationStats(ty) ==
    /\ guard[ty] = 0
    /\ monRet' = [op |-> "get_operation_stats", operation_type |-> ty,
                  ret |-> Ok(IF operation_stats[ty] = NoEntry THEN NoneOpt
                             ELSE Some(StatsResult(operation_stats[ty][1])))]
    /\ UNCHANGED <<exceptMon, operation_stats, active_operations, handles, guard,
                   memory_samples, completed, started>>

\* get_metrics(): records one more memory sample, dropping the first of more
\* than SampleCap, and reports the counter (of the metrics: active_handles and
\* pending_operations)
GetMetrics ==
    /\ memory_samples' = IF memory_samples + 1 > SampleCap THEN memory_samples
                         ELSE memory_samples + 1
    /\ monRet' = [op |-> "get_metrics", operation_type |-> "",
                  ret |-> Ok([active_handles |-> active_operations,
                              pending_operations |-> 0])]
    /\ UNCHANGED <<exceptMon, operation_stats, active_operations, handles, guard,
                   completed, started>>

\* clear_stats(): DashMap::clear waits for the entries held by a complete()
ClearStats ==
    /\ \A ty \in OpTypes : guard[ty] = 0
    /\ operation_stats' = [ty \in OpTypes |-> NoEntry]
    /\ active_operations' = 0
    /\ memory_samples' = 0
    /\ completed' = [ty \in OpTypes |-> EmptyBag]
    /\ started' = 0
    /\ monRet' = [op |-> "clear_stats", operation_type |-> "", ret |-> Ok(<<>>)]
    /\ UNCHANGED <<exceptMon, handles, guard>>

InitMonitor ==
    /\ SearchIdle /\ FileIdle /\ CtxIdle /\ OpIdle
    /\ MonIdle

NextMonitor ==
    \/ \E h \in HandleIds, ty \in OpTypes : StartOperation(h, ty)
    \/ \E h \in HandleIds : CompleteEntry(h)
    \/ \E h \in HandleIds : CompleteCount(h)
    \/ \E h \in HandleIds : CompleteTotal(h)
    \/ \E h \in HandleIds : CompleteBytes(h)
    \/ \E h \in HandleIds : CompleteMin(h)
    \/ \E h \in HandleIds : CompleteMax(h)
    \/ \E h \in HandleIds : CompleteReturn(h)
    \/ \E ty \in OpTypes : GetOperationStats(ty)
    \/ GetMetrics
    \/ ClearStats

SpecMonitor == InitMonitor /\ [][NextMonitor]_vars

\* the sum, the smallest and the largest of the durations of a bag
RECURSIVE WeightedSum(_, _)
WeightedSum(S, B) ==
    IF S = {} THEN 0
    ELSE LET x == CHOOSE y \in S : TRUE
         IN  x * CopiesIn(x, B) + WeightedSum(S \ {x}, B)
SumOf(B) == WeightedSum(BagToSet(B), B)
Smallest(B) == CHOOSE x \in BagToSet(B) : \A y \in BagToSet(B) : x <= y
Largest(B) == CHOOSE x \in BagToSet(B) : \A y \in BagToSet(B) : x >= y

\* get_operation_stats(ty) has returned in the step just taken
StatsReturned(ty) == monRet.op = "get_operation_stats" /\ monRet.operation_type = ty

\* C28: whatever the interleaving of the complete() calls of the handles of
\* one type, a get_operation_stats of the type made after some of them have
\* completed (with no clear_stats since) reports their number as count, the
\* sum of their durations as total_time_us, the smallest as min_time_us and
\* the largest as max_time_us, and min_time_us <= average_time_us <=
\* max_time_us.
C28_StatsOfCompletedHandles ==
    \A ty \in OpTypes :
        (StatsReturned(ty) /\ completed[ty] # EmptyBag) =>
            /\ monRet.ret.kind = "Ok" /\ IsSome(monRet.ret.value)
            /\ LET r == monRet.ret.value[1]
               IN  /\ r.count = BagCardinality(completed[ty])
                   /\ r.total_time_us = SumOf(completed[ty])
                   /\ r.min_time_us = Smallest(completed[ty])
                   /\ r.max_time_us = Largest(completed[ty])
                   /\ r.min_time_us <= r.average_time_us
                   /\ r.average_time_us <= r.max_time_us

\* two handles of one type have completed with different durations, a handle
\* of the other type is inside complete(), and get_operation_stats has
\* returned the statistics of the two
C28_Witness ==
    \E ty \in OpTypes :
        /\ StatsReturned(ty)
        /\ BagCardinality(completed[ty]) = 2
        /\ Smallest(completed[ty]) < Largest(completed[ty])
        /\ monRet.ret.value[1].count = 2
        /\ \E other \in OpTypes \ {ty} : guard[other] # 0

\* C29: complete() leaves active_operations as it is: get_metrics reports as
\* active_handles the number of start_operation calls since construction or
\* the last clear_stats, however many handles have completed, and only
\* clear_stats takes the counter back (to 0).
C29_CompleteLeavesActiveCount ==
    /\ [](monRet.op = "get_metrics" => monRet.ret.value.active_handles = started)
    /\ [][monRet'.op \notin {"start_operation", "clear_stats"}
            => active_operations' = active_operations]_vars
    /\ [][active_operations' < active_operations
            => (monRet'.op = "clear_stats" /\ active_operations' = 0)]_vars

\* two operations were started and both handles have completed: get_metrics
\* still reports 2 active handles
C29_Witness ==
    /\ monRet.op = "get_metrics"
    /\ monRet.ret.value.active_handles = 2
    /\ \A h \in HandleIds : handles[h].pc = "none"
    /\ BagCardinality(completed["ReadFile"]) + BagCardinality(completed["WriteFile"]) = 2

-----------------------------------------------------------------------------
\* The id-based PerformanceMonitor (performance_monitor/mod.rs)

\* the error of end_operation
NotFoundReason == "Operation not found"

\* the ids OPERATIONS holds, and its len()
Tracked(ops) == {i \in OpIds : ops[i] # NoOperation}

\* ops.insert(id, ..) and ops.remove(&operation_id); the latter also as a
\* lookup that leaves the id in the map
OpsInsert(ops, id, name) == [ops EXCEPT ![id] = name]
OpsRemoveKeeping(ops, id) == ops
OpsRemove(ops, id) == IF id \in OpIds THEN [ops EXCEPT ![id] = NoOperation] ELSE ops

\* start_operation(name): a fresh uuid is inserted under the lock of
\* OPERATIONS and returned
StartTracking(name) ==
    \E id \in OpIds \ issued :
        /\ OPERATIONS' = OpsInsert(OPERATIONS, id, name)
        /\ issued' = issued \cup {id}
        /\ opRet' = [op |-> "start_operation", id |-> id, ret |-> Ok(id)]
        /\ UNCHANGED <<exceptOp, ended>>

\* end_operation(operation_id): under the lock, the id is removed and its
\* result returned, or the call fails with "Operation not found"
EndOperation(id) ==
    /\ IF id \in Tracked(OPERATIONS)
       THEN /\ opRet' = [op |-> "end_operation", id |-> id,
                         ret |-> Ok([name |-> OPERATIONS[id]])]
            /\ ended' = ended + 1
       ELSE /\ opRet' = [op |-> "end_operation", id |-> id, ret |-> Err(NotFoundReason)]
            /\ ended' = ended
    /\ OPERATIONS' = OpsRemove(OPERATIONS, id)
    /\ ended' <= MaxOps    \* no more successes than ids
    /\ UNCHANGED <<exceptOp, issued>>

\* get_metrics_summary(): the length of OPERATIONS, read under its lock
GetMetricsSummary ==
    /\ opRet' = [op |-> "get_metrics_summary", id |-> UnknownId,
                 ret |-> Ok([active_operations |-> Cardinality(Tracked(OPERATIONS))])]
    /\ UNCHANGED <<exceptOp, OPERATIONS, issued, ended>>

InitIdMonitor ==
    /\ SearchIdle /\ FileIdle /\ CtxIdle /\ MonIdle
    /\ OpIdle

NextIdMonitor ==
    \/ \E name \in OpNames : StartTracking(name)
    \/ \E id \in OpIds \cup {UnknownId} : EndOperation(id)
    \/ GetMetricsSummary

SpecIdMonitor == InitIdMonitor /\ [][NextIdMonitor]_vars

\* id is in the map
IsTracked(id) == id \in OpIds /\ OPERATIONS[id] # NoOperation

\* end_operation has returned in the step taken
EndReturns == opRet'.op = "end_operation"

\* C30: an id returned by start_operation can be ended exactly once: the first
\* end_operation(id) succeeds and removes the id, an end_operation of an
\* unknown or already ended id fails with "Operation not found" and leaves
\* the tracked set as it is, and get_metrics_summary reports as
\* active_operations the number of operations started minus the number of
\* end_operation calls that succeeded.
C30_EndedExactlyOnce ==
    /\ [][(opRet'.op = "start_operation") =>
             (opRet'.id \notin issued /\ OPERATIONS'[opRet'.id] # NoOperation)]_vars
    /\ [][(EndReturns /\ IsTracked(opRet'.id)) =>
             /\ opRet'.ret.kind = "Ok"
             /\ OPERATIONS'[opRet'.id] = NoOperation
             /\ \A i \in OpIds \ {opRet'.id} : OPERATIONS'[i] = OPERATIONS[i]]_vars
    /\ [][(EndReturns /\ ~IsTracked(opRet'.id)) =>
             /\ opRet'.ret = Err("Operation not found")
             /\ OPERATIONS' = OPERATIONS]_vars
    /\ [](opRet.op = "get_metrics_summary" =>
             opRet.ret.value.active_operations = Cardinality(issued) - ended)

\* an id was started and ended, a second end_operation of it has just failed
\* with "Operation not found", and another started id is still tracked
C30_Witness ==
    /\ opRet.op = "end_operation"
    /\ opRet.id \in issued
    /\ opRet.ret = Err("Operation not found")
    /\ ended = 1
    /\ \E i \in issued \ {opRet.id} : OPERATIONS[i] # NoOperation

\* a usize, given by its four 16-bit limbs, is at least 2^31
AtLeastTwoTo31(u) == u[1] > 0 \/ u[2] > 0 \/ u[3] >= 32768

\* the options give a negative max_depth
NegativeDepth == IsSome(Opts.max_depth) /\ Opts.max_depth[1] < 0

\* C31: a negative max_depth is not rejected: the limit handed to the walker
\* is the wrapped value, at least 2^31, the walk is never cut by it, and once
\* it is over the collected files are those collected with max_depth omitted
\* (the eligible files with a match, at every depth); the value returned is
\* decided by the unwrap of the vector alone.
C31_NegativeDepthIsNoLimit ==
    (ContentCall /\ NegativeDepth /\ ~UnclosedGroup(req.pattern) /\ req.root_path \in Dirs
        /\ IncludeGlobs = <<>> /\ ExcludeGlobs = <<>> /\ faults = NoFaults
        /\ \A f \in Files : ~ContainsNul(content[f]))
        => /\ IsSome(CfgMaxDepth) /\ AtLeastTwoTo31(CfgMaxDepth[1])
           /\ cpc # "start" => ret.reason # InvalidPatternReason
           /\ Quiescent => ResultPaths = EligibleMatching
           /\ Done => ret = IF arcStrong = 1 THEN Ok(results) ELSE Err(UnwrapFailedReason)

\* max_depth is -1 and the call has returned with /r/d/e.rs, a file two
\* levels below the root, among the collected files
C31_Witness ==
    /\ ContentCall /\ Done /\ Opts.max_depth = Some(-1)
    /\ req.root_path = "/r"
    /\ "/r/d/e.rs" \in ResultPaths
    /\ "/r/a.txt" \in ResultPaths

=============================================================================
